---- MODULE Spec2Model ----
(***************************************************************************)
(* Battery dispatch optimisation (algorithms/battery_optimise.py).         *)
(*                                                                         *)
(* battery_optimisation builds a linear program over the periods of the    *)
(* horizon, hands it to an LP solver and unpacks the solved values into a  *)
(* result table.  The model follows the function phase by phase:           *)
(*   start --Build--> built --Solve--> solved --Unpack--> unpacked         *)
(*         --Return*--> done                                               *)
(* The solver is external: Solve picks ANY assignment that is feasible and *)
(* attains the maximum objective (solver tie-breaking is a choice).        *)
(*                                                                         *)
(* Numbers.  The source computes in floating point; the model is exact.    *)
(* Every quantity is an integer number of units:                           *)
(*   power     1/PowerUnits MW,     energy    1/CapUnits MWh,              *)
(*   cycles    1/CycleUnits cycle,  time      1/TicksPerDay day,           *)
(*   money     as base-100 limbs of (dollars * MoneyScale).                *)
(* Periods are 1..N here and 0..N-1 in the source (period p is index p+1). *)
(*                                                                         *)
(* Names the source uses without defining (energy_price, the FCAS price    *)
(* and enablement columns) are read as: energy_price is spot_price, and    *)
(* the FCAS enablement terms, which have no variable, contribute nothing.  *)
(***************************************************************************)
EXTENDS Integers, Sequences, FiniteSets, TLC

---------------------------------------------------------------------------
(* Bounds of the model *)

MaxPeriods == 2

Levels == 2

MaxStep == 2

---------------------------------------------------------------------------
(* Units *)

\* 1/1620 MW: a charge of 100 units stores, and a discharge of 81 units
\* draws, exactly one energy unit per period at efficiency 9/10.
PowerUnits == 81 * 20

\* 1/216 MWh
CapUnits == 12 * 18

TicksPerDay == 1 + 1

---------------------------------------------------------------------------
(* Battery's technical specification *)

MIN_BATTERY_CAPACITY == 0 * CapUnits

MAX_BATTERY_CAPACITY == 10 * CapUnits

MAX_RAW_POWER == 5 * PowerUnits

\* EFFICIENCY = 0.9
EffNum == 9

EffDen == 10

\* MLF = 0.991
MlfNum == 991

MlfDen == 1000

\* the literal 12: periods per hour
PERIOD_PER_HOUR == 12

\* the "/ 2 / MAX_BATTERY_CAPACITY" of the cycling constraint: one cycle is
\* 2 * MAX_BATTERY_CAPACITY energy units, so Cycles counts energy units.
CycleUnits == 2 * MAX_BATTERY_CAPACITY

---------------------------------------------------------------------------
(* Power <-> energy over one period *)

\* Charge_power / 12 * EFFICIENCY, in energy units
Stored(c) == (c * EffNum * CapUnits) \div (PERIOD_PER_HOUR * EffDen * PowerUnits)

\* Discharge_power / 12 / EFFICIENCY, in energy units
Drawn(d) == (d * EffDen * CapUnits) \div (PERIOD_PER_HOUR * EffNum * PowerUnits)

\* the charge power that stores a energy units in one period
ChargeFor(a) == (a * PERIOD_PER_HOUR * EffDen * PowerUnits) \div (EffNum * CapUnits)

\* the discharge power that draws k energy units in one period
DischargeFor(k) == (k * PERIOD_PER_HOUR * EffNum * PowerUnits) \div (EffDen * CapUnits)

---------------------------------------------------------------------------
(* Inputs of a call *)

\* spot prices, $/MWh
Prices == {-5, 0, 100}

\* initial_capacity, energy units: empty, part full, full, above the maximum
InitialCapacities == {MIN_BATTERY_CAPACITY, 50, MAX_BATTERY_CAPACITY, MAX_BATTERY_CAPACITY + 1}

\* cycle_cost, $/cycle
CycleCosts == {-2000, 0, 1000}

\* daily_cycle_limit, cycle units: 1/40 cycle and the default 1.0
DailyCycleLimits == {CycleUnits \div 40, CycleUnits}

\* the time stamps are evenly spaced, step ticks apart; a negative step is
\* an unsorted (descending) sequence
StampSteps == {-MaxStep - 1, -1, 1, MaxStep}

Stamps(n, step) == [i \in 1..n |-> step * (i - 1)]

---------------------------------------------------------------------------
(* State *)

VARIABLES
    pc,                  \* position in battery_optimisation
    datetime,            \* argument: time stamps, ticks
    spot_price,          \* argument: price per period
    initial_capacity,    \* argument
    cycle_cost,          \* argument
    daily_cycle_limit,   \* argument
    include_revenue,     \* argument
    HORIZON_CYCLE_LIMIT, \* local, cycle units
    negative_discharge_index, \* index set of battery.negative_discharge
    battery,             \* solved variable values
    result,              \* the returned table
    printed,             \* the anomaly message was printed
    error                \* exception raised, "" if none

vars == <<pc, datetime, spot_price, initial_capacity, cycle_cost,
          daily_cycle_limit, include_revenue, HORIZON_CYCLE_LIMIT,
          negative_discharge_index, battery, result, printed, error>>

args == <<datetime, spot_price, initial_capacity, cycle_cost,
          daily_cycle_limit, include_revenue>>

\* battery.Period
Period == 1..Len(spot_price)

NoValues == [Charge_power |-> <<>>, Discharge_power |-> <<>>,
             Capacity |-> <<>>, Cycles |-> <<>>]

NoResult == [returned |-> FALSE]

Init ==
    /\ pc = "start"
    /\ \E n \in 0..MaxPeriods :
          /\ spot_price \in [1..n -> Prices]
          /\ \E step \in StampSteps : datetime = Stamps(n, step)
    /\ initial_capacity \in InitialCapacities
    /\ cycle_cost \in CycleCosts
    /\ daily_cycle_limit \in DailyCycleLimits
    /\ include_revenue \in BOOLEAN
    /\ HORIZON_CYCLE_LIMIT = 0
    /\ negative_discharge_index = {}
    /\ battery = NoValues
    /\ result = NoResult
    /\ printed = FALSE
    /\ error = ""

---------------------------------------------------------------------------
(* Exact money: base-100 limbs, least significant first, of dollars times  *)
(* MoneyScale = PowerUnits * 12 * MlfNum * MlfDen.                         *)

Base == 10 * 10

Limbs(n) == <<n % Base, (n \div Base) % Base,
              (n \div (Base * Base)) % Base, n \div (Base * Base * Base)>>

Times(x, n) == [j \in 1..4 |-> x * Limbs(n)[j]]

Plus(u, v) == [j \in 1..4 |-> u[j] + v[j]]

Minus(u, v) == [j \in 1..4 |-> u[j] - v[j]]

\* carry, so that limbs 1..3 are in 0..Base-1 and limb 4 holds the sign
Norm(u) ==
    LET a2 == u[2] + (u[1] \div Base)
        a3 == u[3] + (a2 \div Base)
        a4 == u[4] + (a3 \div Base)
    IN  <<u[1] % Base, a2 % Base, a3 % Base, a4>>

\* u < v, both normalised
Less(u, v) ==
    \/ u[4] < v[4]
    \/ u[4] = v[4] /\ u[3] < v[3]
    \/ u[4] = v[4] /\ u[3] = v[3] /\ u[2] < v[2]
    \/ u[4] = v[4] /\ u[3] = v[3] /\ u[2] = v[2] /\ u[1] < v[1]

\* MoneyScale / CycleUnits: dollars of one cycle unit at 1 $/cycle
CycleMoney == ((PowerUnits * PERIOD_PER_HOUR * MlfDen) \div CycleUnits) * MlfNum

RECURSIVE Sum(_, _)
Sum(f, n) == IF n = 0 THEN 0 ELSE f[n] + Sum(f, n - 1)

---------------------------------------------------------------------------
(* The dispatch model: variables, constraints, objective *)

\* the decision values tried per period: the net energy moved is a multiple
\* of 1/Levels of what the power limit allows, and on top of it the same
\* energy w may be charged and discharged at once.
StoreSteps == {(Stored(MAX_RAW_POWER) * j) \div Levels : j \in 0..Levels}

DrawSteps == {(Drawn(MAX_RAW_POWER) * j) \div Levels : j \in 0..Levels}

Dispatch ==
    {<<ChargeFor(a + w), DischargeFor(k + w)>> :
        <<a, k, w>> \in {t \in StoreSteps \X DrawSteps \X StoreSteps :
                            /\ t[1] = 0 \/ t[2] = 0
                            /\ t[1] + t[3] <= Stored(MAX_RAW_POWER)
                            /\ t[2] + t[3] <= Drawn(MAX_RAW_POWER)}}

\* bounds of battery.Capacity
CapacityBounds(x) == MIN_BATTERY_CAPACITY <= x /\ x <= MAX_BATTERY_CAPACITY

\* bounds of battery.Charge_power and battery.Discharge_power
PowerBounds(x) == 0 <= x /\ x <= MAX_RAW_POWER

\* bounds of battery.Cycles
CyclesBounds(x) == 0 <= x /\ x <= HORIZON_CYCLE_LIMIT

\* Charge_power[i] <= (MAX_BATTERY_CAPACITY - Capacity[i]) * 12 / EFFICIENCY
over_charge(b, i) ==
    b.Charge_power[i] * CapUnits * EffNum
        <= (MAX_BATTERY_CAPACITY - b.Capacity[i]) * PERIOD_PER_HOUR * EffDen * PowerUnits

\* over_discharge measured against the maximum instead of the stored energy
over_discharge_of_maximum(b, i) ==
    b.Discharge_power[i] * CapUnits * EffDen
        <= MAX_BATTERY_CAPACITY * PERIOD_PER_HOUR * EffNum * PowerUnits

\* over_discharge with a strict comparison
over_discharge_strict(b, i) ==
    b.Discharge_power[i] * CapUnits * EffDen
        < b.Capacity[i] * PERIOD_PER_HOUR * EffNum * PowerUnits

\* Discharge_power[i] <= Capacity[i] * 12 * EFFICIENCY
over_discharge(b, i) ==
    b.Discharge_power[i] * CapUnits * EffDen
        <= b.Capacity[i] * PERIOD_PER_HOUR * EffNum * PowerUnits

\* negative_discharge that lets a price of exactly 0 through
negative_discharge_strict(i) == spot_price[i] < 0

\* negative_discharge that always skips
negative_discharge_skipped(i) == FALSE

\* TRUE when the rule returns a constraint, FALSE when Constraint.Skip
negative_discharge(i) == spot_price[i] <= 0

\* capacity_constraint with the efficiency multiplied on the discharge leg
capacity_constraint_multiplied(b, i) ==
    IF i = 1 THEN initial_capacity
    ELSE b.Capacity[i - 1] + Stored(b.Charge_power[i - 1])
                           - Stored(b.Discharge_power[i - 1])

\* the value Capacity[i] is constrained to equal
capacity_constraint(b, i) ==
    IF i = 1 THEN initial_capacity
    ELSE b.Capacity[i - 1] + Stored(b.Charge_power[i - 1])
                           - Drawn(b.Discharge_power[i - 1])

\* cycling_constraint that counts the first period's dispatch too
cycling_constraint_counting_first(b, i) ==
    (IF i = 1 THEN 0 ELSE b.Cycles[i - 1])
        + Stored(b.Charge_power[i]) + Drawn(b.Discharge_power[i])

\* the value Cycles[i] is constrained to equal
cycling_constraint(b, i) ==
    IF i = 1 THEN 0
    ELSE b.Cycles[i - 1] + Stored(b.Charge_power[i]) + Drawn(b.Discharge_power[i])

\* the value Cycle_cost[i] is constrained to equal, $ per cycle unit
incurred_cycle_cost(b, i) ==
    IF i = 1 THEN b.Cycles[i] * cycle_cost
    ELSE cycle_cost * (b.Cycles[i] - b.Cycles[i - 1])

\* maximise_profit with the cost of charging added instead of subtracted
maximise_profit_cost_added(b) ==
    LET n == Len(b.Capacity)
        rev == Times(Sum([i \in 1..n |-> spot_price[i] * b.Discharge_power[i]], n),
                     MlfNum * MlfNum)
        cost == Times(Sum([i \in 1..n |-> spot_price[i] * b.Charge_power[i]], n),
                      MlfDen * MlfDen)
        cyc == Times(Sum([i \in 1..n |-> incurred_cycle_cost(b, i)], n), CycleMoney)
    IN  Norm(Minus(Plus(rev, cost), cyc))

\* the objective, in money limbs
maximise_profit(b) ==
    LET n == Len(b.Capacity)
        rev == Times(Sum([i \in 1..n |-> spot_price[i] * b.Discharge_power[i]], n),
                     MlfNum * MlfNum)
        cost == Times(Sum([i \in 1..n |-> spot_price[i] * b.Charge_power[i]], n),
                      MlfDen * MlfDen)
        cyc == Times(Sum([i \in 1..n |-> incurred_cycle_cost(b, i)], n), CycleMoney)
    IN  Norm(Minus(rev, Plus(cost, cyc)))

\* the assignments of period i that satisfy its bounds and constraints,
\* periods before i being assigned as in b
Extend(b, i) ==
    LET cap == capacity_constraint(b, i)
        With(x) ==
            LET b1 == [Charge_power |-> Append(b.Charge_power, x[1]),
                       Discharge_power |-> Append(b.Discharge_power, x[2]),
                       Capacity |-> Append(b.Capacity, cap),
                       Cycles |-> Append(b.Cycles, 0)]
            IN  [b1 EXCEPT !.Cycles[i] = cycling_constraint(b1, i)]
    IN  {b1 \in {With(x) : x \in Dispatch} :
            /\ CapacityBounds(b1.Capacity[i])
            /\ PowerBounds(b1.Charge_power[i])
            /\ PowerBounds(b1.Discharge_power[i])
            /\ CyclesBounds(b1.Cycles[i])
            /\ over_charge(b1, i)
            /\ over_discharge(b1, i)
            /\ i \in negative_discharge_index => b1.Discharge_power[i] = 0}

---------------------------------------------------------------------------
(* The solver: every feasible assignment that attains the maximum *)

Infeasible == [feasible |-> FALSE, value |-> <<0, 0, 0, 0>>, at |-> {}]

Better(r, s) ==
    IF ~r.feasible THEN s
    ELSE IF ~s.feasible THEN r
    ELSE IF Less(r.value, s.value) THEN s
    ELSE IF Less(s.value, r.value) THEN r
    ELSE [r EXCEPT !.at = r.at \cup s.at]

RECURSIVE Best(_)
Best(S) ==
    IF S = {} THEN Infeasible
    ELSE LET r == CHOOSE r \in S : TRUE IN Better(r, Best(S \ {r}))

RECURSIVE Optimum(_, _)
Optimum(b, i) ==
    IF i > Len(spot_price)
    THEN [feasible |-> TRUE, value |-> maximise_profit(b), at |-> {b}]
    ELSE Best({Optimum(b1, i + 1) : b1 \in Extend(b, i)})

---------------------------------------------------------------------------
(* battery_optimisation, phase by phase *)

\* Timedelta.days: whole days, rounded down
Days(ticks) == ticks \div TicksPerDay

\* NoStamp that also rejects a single time stamp
NoStamp_or_single == Len(datetime) < 2

\* line 46: datetime.iloc[-1] and datetime.iloc[0] raise on an empty datetime
NoStamp == Len(datetime) = 0

\* lines 37-46 on an empty datetime
BuildFails ==
    /\ pc = "start"
    /\ NoStamp
    /\ pc' = "raised"
    /\ error' = "IndexError"
    /\ UNCHANGED <<args, HORIZON_CYCLE_LIMIT, negative_discharge_index,
                   battery, result, printed>>

\* lines 37-137: the horizon's cycle limit, the variables, the constraints
Build ==
    /\ pc = "start"
    /\ ~NoStamp
    /\ HORIZON_CYCLE_LIMIT' =
          daily_cycle_limit * (Days(datetime[Len(datetime)] - datetime[1]) + 1)
    /\ negative_discharge_index' = {i \in Period : negative_discharge(i)}
    /\ pc' = "built"
    /\ UNCHANGED <<args, battery, result, printed, error>>

\* line 140: the solver loads an optimal assignment into the variables
Solve ==
    /\ pc = "built"
    /\ LET r == Optimum(NoValues, 1)
       IN  /\ r.feasible
           /\ battery' \in r.at
    /\ pc' = "solved"
    /\ UNCHANGED <<args, HORIZON_CYCLE_LIMIT, negative_discharge_index,
                   result, printed, error>>

\* line 140 on a model without feasible assignment: no solution is loaded
SolveFails ==
    /\ pc = "built"
    /\ ~Optimum(NoValues, 1).feasible
    /\ pc' = "raised"
    /\ error' = "Infeasible"
    /\ UNCHANGED <<args, HORIZON_CYCLE_LIMIT, negative_discharge_index,
                   battery, result, printed>>

\* lines 143-161: the variables' values become the columns of the table
Unpack ==
    /\ pc = "solved"
    /\ result' = [returned |-> FALSE,
                  energy_price |-> spot_price,
                  charge_power |-> battery.Charge_power,
                  discharge_power |-> battery.Discharge_power,
                  opening_capacity |-> battery.Capacity,
                  cycles |-> battery.Cycles]
    /\ pc' = "unpacked"
    /\ UNCHANGED <<args, HORIZON_CYCLE_LIMIT, negative_discharge_index,
                   battery, printed, error>>

\* Concurrent with "or" for "and"
Concurrent_either(t) ==
    \E p \in DOMAIN t.charge_power :
        t.charge_power[p] # 0 \/ t.discharge_power[p] # 0

\* line 164: some row charges and discharges
Concurrent(t) ==
    \E p \in DOMAIN t.charge_power :
        t.charge_power[p] # 0 /\ t.discharge_power[p] # 0

\* lines 164-166: the anomaly is printed and the raw table returned
ReturnRaw ==
    /\ pc = "unpacked"
    /\ Concurrent(result)
    /\ printed' = TRUE
    /\ result' = [result EXCEPT !.returned = TRUE]
    /\ pc' = "done"
    /\ UNCHANGED <<args, HORIZON_CYCLE_LIMIT, negative_discharge_index,
                   battery, error>>

\* lines 169-171: np.where(charge_power > 0, -charge_power, discharge_power)
Power(t) ==
    [p \in DOMAIN t.charge_power |->
        IF t.charge_power[p] > 0 THEN -t.charge_power[p] ELSE t.discharge_power[p]]

\* lines 178-180: the revenue of each row, money limbs
Revenue(power, price) ==
    [p \in DOMAIN power |->
        IF power[p] < 0
        THEN Norm(Times(power[p] * price[p], MlfDen * MlfDen))
        ELSE Norm(Times(power[p] * price[p], MlfNum * MlfNum))]

\* lines 169-182: signed power, the selected columns, the revenue
ReturnTable ==
    /\ pc = "unpacked"
    /\ ~Concurrent(result)
    /\ LET t == [returned |-> TRUE,
                 spot_price |-> result.energy_price,
                 power |-> Power(result),
                 opening_capacity |-> result.opening_capacity,
                 cycles |-> result.cycles]
       IN  result' = IF include_revenue
                     THEN t @@ [revenue |-> Revenue(t.power, t.spot_price)]
                     ELSE t
    /\ pc' = "done"
    /\ UNCHANGED <<args, HORIZON_CYCLE_LIMIT, negative_discharge_index,
                   battery, printed, error>>

Next ==
    \/ BuildFails
    \/ Build
    \/ Solve
    \/ SolveFails
    \/ Unpack
    \/ ReturnRaw
    \/ ReturnTable

Spec == Init /\ [][Next]_vars

TypeOK ==
    /\ pc \in {"start", "built", "solved", "unpacked", "done", "raised"}
    /\ printed \in BOOLEAN

---------------------------------------------------------------------------
(* Properties *)

N == Len(spot_price)

Solved == pc \in {"solved", "unpacked", "done"}

\* energy units in store after period p's charge and discharge
Closing(p) ==
    battery.Capacity[p] + Stored(battery.Charge_power[p])
                        - Drawn(battery.Discharge_power[p])

\* energy units charged and discharged in periods 1..p
Throughput(p) ==
    Sum([q \in 1..N |-> Stored(battery.Charge_power[q])
                        + Drawn(battery.Discharge_power[q])], p)

Sorted(t) == \A i \in 1..Len(t) : \A j \in i..Len(t) : t[i] <= t[j]

\* C1: in every returned result the first opening capacity is the caller's
\* initial_capacity, and each later one is the previous opening capacity
\* plus charge_power/12 * 0.9 minus discharge_power/12 / 0.9 of the
\* previous period.
C1_CapacityRecursion ==
    pc = "done" =>
        /\ result.opening_capacity[1] = initial_capacity
        /\ \A p \in 2..N :
              (result.opening_capacity[p] - result.opening_capacity[p - 1])
                    * PERIOD_PER_HOUR * EffNum * EffDen * PowerUnits
                = battery.Charge_power[p - 1] * CapUnits * EffNum * EffNum
                  - battery.Discharge_power[p - 1] * CapUnits * EffDen * EffDen

C1_Witness ==
    /\ pc = "done"
    /\ N >= 2
    /\ battery.Charge_power[1] > 0
    /\ result.opening_capacity[2] > result.opening_capacity[1]

\* C2: in every returned result every opening capacity lies between the
\* minimum and the maximum capacity, and so does the energy left after each
\* period's charge and discharge, the last period included.
C2_CapacityInRange ==
    pc = "done" =>
        \A p \in 1..N :
            /\ MIN_BATTERY_CAPACITY <= result.opening_capacity[p]
            /\ result.opening_capacity[p] <= MAX_BATTERY_CAPACITY
            /\ MIN_BATTERY_CAPACITY <= Closing(p)
            /\ Closing(p) <= MAX_BATTERY_CAPACITY

C2_Witness ==
    /\ pc = "done"
    /\ N >= 1
    /\ battery.Discharge_power[N] > 0
    /\ Closing(N) = MIN_BATTERY_CAPACITY

\* C3: a period whose price is <= 0, a price of exactly 0 included, has a
\* returned discharge_power of exactly 0; the suppression constraint is
\* emitted for those periods only, so a period with a positive price has none.
C3_DischargeSuppressed ==
    /\ pc \in {"built", "solved", "unpacked", "done"} =>
          negative_discharge_index = {p \in 1..N : spot_price[p] <= 0}
    /\ pc = "done" =>
          \A p \in 1..N : spot_price[p] <= 0 => battery.Discharge_power[p] = 0

C3_Witness ==
    /\ pc = "done"
    /\ \E p, q \in 1..N :
          /\ spot_price[p] = 0
          /\ battery.Capacity[p] > 0
          /\ spot_price[q] > 0
          /\ battery.Discharge_power[q] > 0

\* C4: at every optimal solution, with cycle_cost >= 0, no period both
\* charges and discharges.
C4_NoConcurrentDispatch ==
    (Solved /\ cycle_cost >= 0) =>
        \A p \in 1..N :
            battery.Charge_power[p] = 0 \/ battery.Discharge_power[p] = 0

C4_Witness ==
    /\ Solved
    /\ cycle_cost >= 0
    /\ \E p, q \in 1..N :
          battery.Charge_power[p] > 0 /\ battery.Discharge_power[q] > 0

\* C5: in every returned result the first cycle count is 0 and the cycle
\* count never decreases from one period to the next.
C5_CyclesMonotone ==
    pc = "done" =>
        /\ N >= 1 => result.cycles[1] = 0
        /\ \A p \in 2..N : result.cycles[p] >= result.cycles[p - 1]

C5_Witness ==
    /\ pc = "done"
    /\ N >= 2
    /\ battery.Charge_power[1] > 0
    /\ result.cycles[2] > result.cycles[1]

\* C6: when some period of the solved dispatch both charges and discharges,
\* the anomaly is printed and the raw table is returned without raising;
\* when none does, nothing is printed and the table carries the signed
\* power: -charge_power where charge_power > 0, else discharge_power.
C6_AnomalyReported ==
    pc = "done" =>
        /\ error = ""
        /\ result.returned
        /\ IF \E p \in 1..N : battery.Charge_power[p] > 0 /\ battery.Discharge_power[p] > 0
           THEN /\ printed
                /\ result.charge_power = battery.Charge_power
                /\ result.discharge_power = battery.Discharge_power
                /\ result.opening_capacity = battery.Capacity
                /\ result.cycles = battery.Cycles
           ELSE /\ ~printed
                /\ \A p \in 1..N :
                      result.power[p] = IF battery.Charge_power[p] > 0
                                        THEN -battery.Charge_power[p]
                                        ELSE battery.Discharge_power[p]

C6_Witness ==
    /\ pc = "done"
    /\ printed
    /\ \E p \in 1..N : battery.Charge_power[p] > 0 /\ battery.Discharge_power[p] > 0

RECURSIVE TotalRevenue(_)
TotalRevenue(p) ==
    IF p = 0 THEN <<0, 0, 0, 0>>
    ELSE Norm(Plus(result.revenue[p], TotalRevenue(p - 1)))

ScenarioB ==
    /\ pc = "done"
    /\ spot_price = <<100, -5>>
    /\ cycle_cost = 0
    /\ initial_capacity = MAX_BATTERY_CAPACITY

\* C8 as stated: in scenario B (prices [100, -5], cycle_cost 0, a full
\* battery), here with sorted time stamps, period 0 discharges at the
\* maximum power, period 1 neither discharges nor charges, and the revenue
\* is max power / 12 * 100.
C8_ScenarioB ==
    (ScenarioB /\ Sorted(datetime)) =>
        /\ battery.Discharge_power[1] = MAX_RAW_POWER
        /\ battery.Discharge_power[2] = 0
        /\ battery.Charge_power[2] = 0
        /\ include_revenue =>
              TotalRevenue(2) = Norm(Times(MAX_RAW_POWER * 100, MlfNum * MlfDen))

\* C8 amended: in scenario B with a cycle limit that leaves room for one
\* period of charging, period 0 discharges at the maximum power and period
\* 1 does not discharge but charges at the maximum power, being paid the
\* negative price; the revenue is max power / 12 * (100 * MLF + 5 / MLF).
C8_ScenarioBCharges ==
    (ScenarioB /\ HORIZON_CYCLE_LIMIT >= Stored(MAX_RAW_POWER)) =>
        /\ battery.Charge_power[1] = 0
        /\ battery.Discharge_power[1] = MAX_RAW_POWER
        /\ battery.Discharge_power[2] = 0
        /\ battery.Charge_power[2] = MAX_RAW_POWER
        /\ include_revenue =>
              TotalRevenue(2) = Norm(Plus(Times(MAX_RAW_POWER * 100, MlfNum * MlfNum),
                                          Times(MAX_RAW_POWER * 5, MlfDen * MlfDen)))

C8_Witness ==
    /\ ScenarioB
    /\ HORIZON_CYCLE_LIMIT >= Stored(MAX_RAW_POWER)
    /\ include_revenue
    /\ result.power = <<MAX_RAW_POWER, -MAX_RAW_POWER>>

\* C9 as stated: cycles[p] is the throughput of all periods up to and
\* including p, period 0 included, in cycles, so that the whole horizon's
\* throughput stays within the horizon's cycle limit.
C9_CyclesCountAllPeriods ==
    pc = "done" =>
        /\ \A p \in 1..N : result.cycles[p] = Throughput(p)
        /\ Throughput(N) <= HORIZON_CYCLE_LIMIT

\* C10: with initial_capacity within the capacity range and a horizon cycle
\* limit >= 0 the model is feasible, whatever the prices and the horizon
\* length: the solve fails as infeasible only when one of the two is not so.
C10_Feasible ==
    (/\ pc \in {"solved", "unpacked", "done", "raised"}
     /\ N >= 1
     /\ MIN_BATTERY_CAPACITY <= initial_capacity
     /\ initial_capacity <= MAX_BATTERY_CAPACITY
     /\ HORIZON_CYCLE_LIMIT >= 0)
        => (pc # "raised" /\ error # "Infeasible" /\ Len(battery.Capacity) = N)

C10_Witness ==
    /\ pc = "solved"
    /\ N >= 2
    /\ HORIZON_CYCLE_LIMIT = 0
    /\ initial_capacity = MIN_BATTERY_CAPACITY
    /\ \E p, q \in 1..N : spot_price[p] < 0 /\ spot_price[q] > 0

====
